---- MODULE Spec2Model ----
(***************************************************************************)
(* Speculative decoding (fms/utils/generation.py): generate() and          *)
(* speculative_generate() over a paged key/value cache.                    *)
(*                                                                         *)
(* Tokens are 1..NTok; 0 is the pad id (F.pad pads with 0, and generate()  *)
(* assumes "the pad token is 0").  The base model is a fixed deterministic *)
(* function of the real tokens of the context it attends to; the           *)
(* speculator is arbitrary.  The paged cache is an external collaborator:  *)
(* it is modelled by its sequence-lifecycle contract, each sequence id     *)
(* owning the list of token slots committed to it.                         *)
(***************************************************************************)
EXTENDS Integers, Sequences, FiniteSets, TLC

\* ---------------------------------------------------------------- bounds
MaxBatch == 2
MaxPromptLen == 3
NTok == 2
MaxTopK == 2
MaxPredict == 5
MaxCells == 6
MaxTotalNew == 5
MaxSeed == 1

\* ------------------------------------------------------ program constants
max_seq_len == 2048
PAD == 0
NegInf == -1

Tokens == 1..NTok

VARIABLES
    pc,                  \* "start", "gen_loop", "gen_done", "round", "spec_done", "error"
    model_seed,          \* which fixed deterministic model is in use
    cache_counts_pads,   \* whether the cache commits slots for left pads
    paged_kv_cache,      \* [seqs, next_id, n_ops, log]
    n_model_calls,       \* number of forward passes of the base model
    \* speculative_generate
    input_ids, new_tokens, top_k, n_adds,
    result, parent_sequence_ids, n_gen, n_steps, inputs,
    mask, pos_ids, n_pads, n_correct, best_guess, accepted,
    rounds, all_zero, all_full,
    scored,              \* the scoring of one candidate batch on its own
    \* generate
    gen

vars == << pc, model_seed, cache_counts_pads, paged_kv_cache, n_model_calls,
           input_ids, new_tokens, top_k, n_adds,
           result, parent_sequence_ids, n_gen, n_steps, inputs,
           mask, pos_ids, n_pads, n_correct, best_guess, accepted,
           rounds, all_zero, all_full, scored, gen >>

specVars == << input_ids, new_tokens, top_k, n_adds,
               result, parent_sequence_ids, n_gen, n_steps, inputs,
               mask, pos_ids, n_pads, n_correct, best_guess, accepted,
               rounds, all_zero, all_full >>

\* ---------------------------------------------------------------- helpers
RECURSIVE SetMin(_)
SetMin(S) == LET x == CHOOSE y \in S : TRUE
             IN  IF S = {x} THEN x
                 ELSE LET m == SetMin(S \ {x}) IN IF x < m THEN x ELSE m

RECURSIVE SetMax(_)
SetMax(S) == LET x == CHOOSE y \in S : TRUE
             IN  IF S = {x} THEN x
                 ELSE LET m == SetMax(S \ {x}) IN IF x > m THEN x ELSE m

SeqMin(s) == SetMin({ s[i] : i \in 1..Len(s) })
SeqMax(s) == SetMax({ s[i] : i \in 1..Len(s) })

RECURSIVE SeqSum(_)
SeqSum(s) == IF s = << >> THEN 0 ELSE Head(s) + SeqSum(Tail(s))

Clamp(x, lo, hi) == IF x < lo THEN lo ELSE IF x > hi THEN hi ELSE x

\* s[start:] with Python's treatment of a negative or too large start
PySliceFrom(s, start) ==
    LET idx == IF start < 0 THEN (IF Len(s) + start < 0 THEN 0 ELSE Len(s) + start)
               ELSE (IF start > Len(s) THEN Len(s) ELSE start)
    IN  SubSeq(s, idx + 1, Len(s))

\* s[:n] for n >= 0
PyTake(s, n) == SubSeq(s, 1, IF n > Len(s) THEN Len(s) ELSE n)

\* s[:-1]
DropLast(s) == SubSeq(s, 1, Len(s) - 1)

\* s[-1:]
LastOne(s) == PySliceFrom(s, -1)

\* F.pad(seq, (n, 0))
LeftPad(s, n) == [j \in 1..n |-> PAD] \o s

RealTokens(s) == SelectSeq(s, LAMBDA t : t # PAD)

\* ------------------------------------------------------------- base model
\* The token the base model's argmax emits after the context ctx.
Model(ctx) ==
    1 + ((model_seed + Len(ctx) + SeqSum([j \in 1..Len(ctx) |-> j * ctx[j]])) % NTok)

\* -------------------------------------------------------------- paged cache
EmptyCache == [seqs |-> << >>, next_id |-> 0, n_ops |-> 0, log |-> << >>]

Live(c) == DOMAIN c.seqs
Allocated(c) == 0..(c.next_id - 1)
Freed(c) == Allocated(c) \ Live(c)
ContextLength(c, id) == Len(c.seqs[id])

\* ids handed out in increasing order
FreshIds(c, n) == [j \in 1..n |-> c.next_id + j - 1]

\* the record of one call: the operation, the ids and count it was given, and
\* whether every id was live (allocated and not freed) when it was made
CallRecord(c, op, ids, n) ==
    [op |-> op, ids |-> ids, n |-> n,
     live |-> \A j \in 1..Len(ids) : ids[j] \in Live(c)]

\* every call is counted and recorded, in order
Called(c, op, ids, n) ==
    [c EXCEPT !.n_ops = c.n_ops + 1,
              !.log = Append(c.log, CallRecord(c, op, ids, n))]

GetUnassignedSequenceIds(c, n) ==
    [Called(c, "get_unassigned_sequence_ids", << >>, n) EXCEPT !.next_id = c.next_id + n]

StoredRow(row) == IF cache_counts_pads THEN row ELSE RealTokens(row)

\* allocate_initial_prompt(rows, ids): one sequence per row, holding the row
AllocateInitialPromptAt(c, rows, ids) ==
    [Called(c, "allocate_initial_prompt", ids, Len(ids)) EXCEPT
        !.seqs = [id \in Live(c) \cup { ids[j] : j \in 1..Len(ids) } |->
                     IF \E j \in 1..Len(ids) : ids[j] = id
                     THEN StoredRow(rows[CHOOSE j \in 1..Len(ids) : ids[j] = id])
                     ELSE c.seqs[id]]]

\* allocate_initial_prompt(rows): the cache picks the ids itself
AllocateInitialPrompt(c, rows) ==
    AllocateInitialPromptAt([c EXCEPT !.next_id = c.next_id + Len(rows)],
                            rows, FreshIds(c, Len(rows)))

\* add_child_sequences(parent, k): k new ids sharing the parent's history
AddChildSequences(c, parent, k) ==
    LET kids == FreshIds(c, k)
        history == IF parent \in Live(c) THEN c.seqs[parent] ELSE << >>
    IN  [Called(c, "add_child_sequences", << parent >>, k) EXCEPT
            !.seqs = [id \in Live(c) \cup { kids[j] : j \in 1..k } |->
                         IF id \in Live(c) THEN c.seqs[id] ELSE history],
            !.next_id = c.next_id + k]

\* allocate_generated_token(ids, n): n new slots on each id, in the order of
\* ids; the forward pass that follows writes row r of its input into the
\* slots of ids[r]
AllocateGeneratedToken(c, ids, rows) ==
    [Called(c, "allocate_generated_token", ids,
            IF rows = << >> THEN 0 ELSE Len(rows[1])) EXCEPT
        !.seqs = [id \in Live(c) |->
                     IF \E r \in 1..Len(ids) : ids[r] = id
                     THEN c.seqs[id] \o rows[CHOOSE r \in 1..Len(ids) : ids[r] = id]
                     ELSE c.seqs[id]]]

\* remove_tokens(id, n): drop the n trailing slots
RemoveTokens(c, id, n) ==
    [Called(c, "remove_tokens", << id >>, n) EXCEPT
        !.seqs = [x \in Live(c) |->
                     IF x = id THEN SubSeq(c.seqs[x], 1, Len(c.seqs[x]) - n)
                     ELSE c.seqs[x]]]

\* free_sequences(ids)
FreeSequences(c, ids) ==
    [Called(c, "free_sequences", ids, Len(ids)) EXCEPT
        !.seqs = [id \in Live(c) \ { ids[j] : j \in 1..Len(ids) } |-> c.seqs[id]]]

\* ------------------------------------------------- speculative_generate
\* the prompt of sequence i (1-based) of a batch, by its length
Prompt(i, len) == [j \in 1..len |-> 1 + ((i + j) % NTok)]
PromptBatch(lens) == [i \in 1..Len(lens) |-> Prompt(i, lens[i])]

BatchShapes ==
    UNION { [1..b -> 1..MaxPromptLen] : b \in 1..MaxBatch }

\* mask.tril()
Tril(i, j) == IF j <= i THEN 1 ELSE 0
\* torch.eye
Eye(i, j) == IF i = j THEN 1 ELSE 0
\* the pad mask without the .sub(1): the first real column is masked too
PadMaskOffByOne(np, j) == Clamp(j - np, 0, 1)
\* pad_mask.sub(n_pads.sub(1)).clamp(0, 1), column j of a row with np pads
PadMask(np, j) == Clamp(j - (np - 1), 0, 1)
\* .log() of a 0/1 entry: log(1) = 0, log(0) = -inf
Log01(b) == IF b THEN 0 ELSE NegInf
\* mask.mul(pad_mask).logical_or(eye).log()
MaskEntry(np, i, j) == Log01((Tril(i, j) * PadMask(np, j) # 0) \/ (Eye(i, j) # 0))
BuildMask(pads, n) ==
    [b \in 1..Len(pads) |-> [i \in 0..(n - 1) |-> [j \in 0..(n - 1) |->
        MaskEntry(pads[b], i, j)]]]
\* arange(n).repeat(bsize, 1) - n_pads[:, None]
BuildPosIds(pads, n) ==
    [b \in 1..Len(pads) |-> [i \in 0..(n - 1) |-> i - pads[b]]]

\* inputs.roll(-1, 1): position j holds the token of position j+1, wrapping
Roll(row) == [j \in 1..Len(row) |-> row[(j % Len(row)) + 1]]
\* a.eq(b) as 0/1
EqRow(a, b) == [j \in 1..Len(a) |-> IF a[j] = b[j] THEN 1 ELSE 0]
RECURSIVE SeqProd(_)
SeqProd(s) == IF s = << >> THEN 1 ELSE Head(s) * SeqProd(Tail(s))
\* no cumulative product: agreements after the first miss count too
NoCumProd(s) == s
\* cumprod(1)
CumProd(s) == [j \in 1..Len(s) |-> SeqProd(SubSeq(s, 1, j))]
\* the sum without the clamp
NCorrectOfUnclamped(row, nv, na) == SeqSum(CumProd(EqRow(Roll(row), nv)))
\* test.sum(1).clamp(0, n_adds - 1)
NCorrectOf(row, nv, na) ==
    Clamp(SeqSum(CumProd(EqRow(Roll(row), nv))), 0, na - 1)
\* argmax taken as the last maximal entry
ArgMaxLast(s) ==
    (CHOOSE i \in 1..Len(s) :
        /\ s[i] = SeqMax(s)
        /\ \A j \in (i + 1)..Len(s) : s[j] < s[i]) - 1
\* argmax: 0-based index of the first maximal entry
ArgMax(s) ==
    (CHOOSE i \in 1..Len(s) :
        /\ s[i] = SeqMax(s)
        /\ \A j \in 1..(i - 1) : s[j] < s[i]) - 1

\* the loop running until any one sequence has enough tokens
LoopCondAnySequence(ng, nt) == SeqMax(ng) < nt
\* the loop condition with <= for <
LoopCondInclusive(ng, nt) == SeqMin(ng) <= nt
\* while min(n_gen) < new_tokens
LoopCond(ng, nt) == SeqMin(ng) < nt
\* the trim count without the - 1
TrimCountKeepsNone(na, nc) == na - nc
\* n_adds - n_correct - 1, the count given to remove_tokens
TrimCount(na, nc) == na - nc - 1
\* only the verified tokens kept, without the model's own continuation
AcceptedTokensNoBoundary(nv, nc) == PyTake(nv, nc)
\* every predicted token kept, wrong speculations included
AcceptedTokensAll(nv, nc) == nv
\* next_vals[: n_correct + 1]
AcceptedTokens(nv, nc) == PyTake(nv, nc + 1)
\* the generated count raised by one token too many
NGenAfterPlusTwo(ng, nc) == ng + nc + 2
\* n_gen += n_correct + 1
NGenAfter(ng, nc) == ng + nc + 1
\* no candidate is freed
BadCandidatesNone(kids, best) == << >>
\* every candidate is freed, the best one included
BadCandidatesAll(kids, best) == kids
\* child_sequence_ids[:best] + child_sequence_ids[best + 1:]
BadCandidates(kids, best) == PyTake(kids, best) \o PySliceFrom(kids, best + 1)

\* decode_obo(x, vinv): x.squeeze() of a one-token line is 0-d and its tolist()
\* is a number, so the iteration over it raises; verbose_dict is taken to
\* name every token id, so the lookup vinv[z] does not
DecodeOboRaises(x) == Len(x) = 1

\* test.sum(1).clamp(0, n_adds - 1).view(top_k, bsize)
NCorrectAll(rows, next_vals, k, b, na) ==
    [kk \in 1..k |-> [bb \in 1..b |->
        NCorrectOf(rows[(kk - 1) * b + bb], next_vals[(kk - 1) * b + bb], na)]]
\* n_correct.argmax(0)
BestGuess(nc_all, k, b) == [bb \in 1..b |-> ArgMax([kk \in 1..k |-> nc_all[kk][bb]])]
\* next_vals.view(top_k, bsize, n_adds).gather(0, best_guess_unflat)[0]
GatherRows(x, best, b) == [bb \in 1..b |-> x[best[bb] * b + bb]]
\* n_correct.gather(0, best_guess.unsqueeze(0))[0]
GatherCounts(nc_all, best, b) == [bb \in 1..b |-> nc_all[best[bb] + 1][bb]]

\* for parent in parent_sequence_ids: add_child_sequences(parent, top_k)
RECURSIVE AddChildren(_, _, _)
AddChildren(c, parents, k) ==
    IF parents = << >> THEN [cache |-> c, list |-> << >>]
    ELSE LET kids == FreshIds(c, k)
             rest == AddChildren(AddChildSequences(c, Head(parents), k), Tail(parents), k)
         IN  [cache |-> rest.cache, list |-> << kids >> \o rest.list]

\* child_sequence_ids_flattened
RECURSIVE Flatten(_)
Flatten(list) == IF list = << >> THEN << >> ELSE Head(list) \o Flatten(Tail(list))

\* inputs.view(-1, n_adds) of the k b 1+h tensor: row (kk, bb) is row kk*b + bb
InputsFlat(last, adds, k, b) ==
    [r \in 1..(k * b) |->
        LET kk == ((r - 1) \div b) + 1
            bb == ((r - 1) % b) + 1
        IN  last[bb] \o adds[kk][bb]]

\* argmax of the logits of the forward pass: row r runs against the history
\* of the r-th sequence id of the cache metadata
NextVals(c, flat, rows) ==
    [r \in 1..Len(rows) |-> [j \in 1..Len(rows[r]) |->
        Model(RealTokens(c.seqs[flat[r]]) \o SubSeq(rows[r], 1, j))]]

\* free all worst candidates and keep best candidates as parents
RECURSIVE Reconcile(_, _, _, _, _)
Reconcile(c, list, best, nc, na) ==
    IF list = << >> THEN [cache |-> c, parents |-> << >>]
    ELSE LET kids == Head(list)
             c1 == FreeSequences(c, BadCandidates(kids, Head(best)))
             best_sequence_id == kids[Head(best) + 1]
             c2 == RemoveTokens(c1, best_sequence_id, TrimCount(na, Head(nc)))
             rest == Reconcile(c2, Tail(list), Tail(best), Tail(nc), na)
         IN  [cache |-> rest.cache, parents |-> << best_sequence_id >> \o rest.parents]

Init ==
    /\ pc = "start"
    /\ model_seed \in 0..MaxSeed
    /\ cache_counts_pads \in BOOLEAN
    /\ paged_kv_cache = EmptyCache
    /\ n_model_calls = 0
    /\ input_ids = << >>
    /\ new_tokens = 0
    /\ top_k = 0
    /\ n_adds = 0
    /\ result = << >>
    /\ parent_sequence_ids = << >>
    /\ n_gen = << >>
    /\ n_steps = 0
    /\ inputs = << >>
    /\ mask = << >>
    /\ pos_ids = << >>
    /\ n_pads = << >>
    /\ n_correct = << >>
    /\ best_guess = << >>
    /\ accepted = << >>
    /\ rounds = 0
    /\ all_zero = TRUE
    /\ all_full = TRUE
    /\ scored = [stage |-> "none"]
    /\ gen = [fn |-> "none"]

\* lines 201-263: batch construction, cache allocation, mask, priming pass
SpecPrime ==
    /\ pc = "start"
    /\ \E lens \in BatchShapes, nt \in 0..MaxTotalNew, k \in 1..MaxTopK,
          np \in 0..MaxPredict, tensors \in BOOLEAN, verbose \in BOOLEAN :
        /\ Len(lens) * k * np <= MaxCells
        /\ Len(lens) * nt <= MaxTotalNew
        /\ gen' = [fn |-> "speculative_generate", is_tensor |-> tensors,
                   verbose |-> verbose]
        /\ UNCHANGED scored
        /\ IF ~tensors
           THEN \* seq.size(0) raises on a prefix that is not a list of tensors
                /\ pc' = "error"
                /\ UNCHANGED << model_seed, cache_counts_pads, paged_kv_cache,
                                n_model_calls, specVars >>
           ELSE LET ids == PromptBatch(lens)
                    bsize == Len(ids)
                    max_len == SeqMax([i \in 1..bsize |-> Len(ids[i])])
                    n_pads_init == [i \in 1..bsize |-> max_len - Len(ids[i])]
                    padded == [i \in 1..bsize |-> LeftPad(ids[i], n_pads_init[i])]
                    na == np + 1
                    cut == [i \in 1..bsize |-> PySliceFrom(padded[i], na - max_seq_len)]
                IN  /\ pc' = "round"
                    /\ input_ids' = ids
                    /\ new_tokens' = nt
                    /\ top_k' = k
                    /\ n_adds' = na
                    /\ result' = ids
                    /\ n_pads' = n_pads_init
                    /\ paged_kv_cache' =
                         AllocateInitialPrompt(paged_kv_cache,
                                               [i \in 1..bsize |-> DropLast(padded[i])])
                    /\ parent_sequence_ids' = FreshIds(paged_kv_cache, bsize)
                    /\ mask' = BuildMask(n_pads_init, max_len - 1)
                    /\ pos_ids' = BuildPosIds(n_pads_init, max_len - 1)
                    /\ n_model_calls' = n_model_calls + 1
                    /\ n_gen' = [i \in 1..bsize |-> 0]
                    /\ n_steps' = 0
                    /\ inputs' = [i \in 1..bsize |-> LastOne(cut[i])]
                    /\ UNCHANGED << model_seed, cache_counts_pads, n_correct,
                                    best_guess, accepted, rounds, all_zero, all_full >>

\* lines 264-359: one iteration of the round loop
SpecRound ==
    /\ pc = "round"
    /\ LoopCond(n_gen, new_tokens)
    /\ LET bsize == Len(parent_sequence_ids)
           np == n_adds - 1
       IN  \E adds \in [1..top_k -> [1..bsize -> [1..np -> Tokens]]] :
           \E kids \in { AddChildren(paged_kv_cache, parent_sequence_ids, top_k) } :
           \E flat \in { Flatten(kids.list) } :
           \E rows \in { InputsFlat(inputs, adds, top_k, bsize) } :
           \E next_vals \in { NextVals(kids.cache, flat, rows) } :
           \E c2 \in { AllocateGeneratedToken(kids.cache, flat, rows) } :
           \E nc_all \in { NCorrectAll(rows, next_vals, top_k, bsize, n_adds) } :
           \E best \in { BestGuess(nc_all, top_k, bsize) } :
           \E nv_sel \in { GatherRows(next_vals, best, bsize) } :
           \E nc \in { GatherCounts(nc_all, best, bsize) } :
           \E rec \in { Reconcile(c2, kids.list, best, nc, n_adds) } :
           \E split \in { [bb \in 1..bsize |-> AcceptedTokens(nv_sel[bb], nc[bb])] } :
           \E speculation \in { GatherRows(rows, best, bsize) } :
           \E updated \in { [bb \in 1..bsize |-> result[bb] \o split[bb]] } :
           IF gen.verbose /\ \E bb \in 1..bsize : DecodeOboRaises(speculation[bb])
           THEN \* lines 315-323: the print of the speculation raises; the
                \* children are allocated and nothing is reconciled
               /\ pc' = "error"
               /\ n_model_calls' = n_model_calls + 1
               /\ paged_kv_cache' = c2
               /\ UNCHANGED specVars
           ELSE IF gen.verbose /\ \E bb \in 1..bsize : DecodeOboRaises(updated[bb])
           THEN \* lines 356-359: the print of the updated output raises
               /\ pc' = "error"
               /\ n_model_calls' = n_model_calls + 1
               /\ paged_kv_cache' = rec.cache
               /\ UNCHANGED specVars
           ELSE
               /\ pc' = pc
               /\ n_steps' = n_steps + 1
               /\ n_model_calls' = n_model_calls + 1
               /\ paged_kv_cache' = rec.cache
               /\ parent_sequence_ids' = rec.parents
               /\ n_correct' = nc
               /\ best_guess' = best
               /\ n_gen' = [bb \in 1..bsize |-> NGenAfter(n_gen[bb], nc[bb])]
               /\ result' = updated
               /\ inputs' = [bb \in 1..bsize |-> LastOne(split[bb])]
               /\ accepted' = [bb \in 1..bsize |-> Len(split[bb])]
               /\ rounds' = rounds + 1
               /\ all_zero' = (all_zero /\ \A bb \in 1..bsize : nc[bb] = 0)
               /\ all_full' = (all_full /\ \A bb \in 1..bsize : nc[bb] = n_adds - 1)
               /\ UNCHANGED << input_ids, new_tokens, top_k, n_adds, mask,
                               pos_ids, n_pads >>
    /\ UNCHANGED << model_seed, cache_counts_pads, gen, scored >>

\* line 361: return result, n_steps
SpecReturn ==
    /\ pc = "round"
    /\ ~LoopCond(n_gen, new_tokens)
    /\ pc' = "spec_done"
    /\ UNCHANGED << model_seed, cache_counts_pads, paged_kv_cache, n_model_calls,
                    specVars, gen, scored >>

\* ----------------------------------------------------------------- generate
\* the entry checks without the beam check
GenerateEntryOkTensorOnly(num_beams, is_tensor) == is_tensor
\* lines 59-65: the checks made on entry
GenerateEntryOk(num_beams, is_tensor) == num_beams = 1 /\ is_tensor

\* the prompt allocated again in every iteration
IsPromptAlways(i) == TRUE
\* line 90: the first iteration is the prompt
IsPrompt(i) == i = 0

\* line 131: greedy choice, the argmax over the logits of the last position
GreedyNext(ctx) == Model(ctx)

\* lines 58-80: entry checks, batching, acquisition of the sequence ids
GenerateEnter ==
    /\ pc = "start"
    /\ \E lens \in BatchShapes, mnt \in 0..MaxTotalNew, num_beams \in {1, 2},
          kind \in {"1d", "2d", "other"}, use_cache \in BOOLEAN,
          paged \in BOOLEAN, do_sample \in BOOLEAN :
        /\ Len(lens) * mnt <= MaxTotalNew
        /\ kind # "2d" => Len(lens) = 1
        /\ \A a, b \in 1..Len(lens) : lens[a] = lens[b]
        /\ LET ok == GenerateEntryOk(num_beams, kind # "other")
               rows == PromptBatch(lens)
               take == ok /\ use_cache /\ paged
           IN  /\ gen' = [fn |-> "generate", is_tensor |-> kind # "other",
                          num_beams |-> num_beams, batched |-> kind = "2d",
                          use_cache |-> use_cache, paged |-> paged,
                          do_sample |-> do_sample, max_new_tokens |-> mnt,
                          prompt |-> rows, i |-> 0,
                          result |-> IF ok THEN rows ELSE << >>,
                          next_input |-> IF ok THEN rows ELSE << >>,
                          past |-> IF ok THEN [r \in 1..Len(rows) |-> << >>] ELSE << >>,
                          sequence_ids |-> IF take THEN FreshIds(paged_kv_cache, Len(rows))
                                           ELSE << >>,
                          returned |-> << >>]
               /\ pc' = IF ok THEN "gen_loop" ELSE "error"
               /\ paged_kv_cache' =
                    IF take THEN GetUnassignedSequenceIds(paged_kv_cache, Len(rows))
                    ELSE paged_kv_cache
    /\ UNCHANGED << model_seed, cache_counts_pads, n_model_calls, specVars, scored >>

\* lines 82-138: one iteration of the generation loop
GenerateStep ==
    /\ pc = "gen_loop"
    /\ gen.i < gen.max_new_tokens
    /\ LET bsize == Len(gen.result)
           input == [r \in 1..bsize |-> PySliceFrom(gen.next_input[r], 0 - max_seq_len)]
           uses_pages == gen.use_cache /\ gen.paged
       IN  \E sample \in [1..bsize -> Tokens] :
           \E c1 \in { IF ~uses_pages THEN paged_kv_cache
                       ELSE IF IsPrompt(gen.i)
                            THEN AllocateInitialPromptAt(paged_kv_cache, input,
                                                         gen.sequence_ids)
                            ELSE AllocateGeneratedToken(paged_kv_cache,
                                                        gen.sequence_ids, input) } :
           \E past \in { [r \in 1..bsize |-> gen.past[r] \o input[r]] } :
           \E ctx \in { [r \in 1..bsize |->
                           IF uses_pages THEN RealTokens(c1.seqs[gen.sequence_ids[r]])
                           ELSE IF gen.use_cache THEN past[r]
                           ELSE input[r]] } :
           \E next_val \in { [r \in 1..bsize |->
                                IF gen.do_sample THEN sample[r]
                                ELSE GreedyNext(ctx[r])] } :
           \E res \in { [r \in 1..bsize |-> Append(gen.result[r], next_val[r])] } :
               /\ (~gen.do_sample => \A r \in 1..bsize : sample[r] = 1)
               /\ paged_kv_cache' = c1
               /\ n_model_calls' = n_model_calls + 1
               /\ gen' = [gen EXCEPT !.i = gen.i + 1,
                                     !.result = res,
                                     !.past = IF gen.use_cache THEN past ELSE gen.past,
                                     !.next_input =
                                         IF gen.use_cache
                                         THEN [r \in 1..bsize |-> << next_val[r] >>]
                                         ELSE res]
    /\ UNCHANGED << pc, model_seed, cache_counts_pads, specVars, scored >>

\* lines 140-146: unbatch, free the sequences, return
GenerateReturn ==
    /\ pc = "gen_loop"
    /\ gen.i >= gen.max_new_tokens
    /\ pc' = "gen_done"
    /\ gen' = [gen EXCEPT !.returned = IF gen.batched THEN gen.result ELSE gen.result[1]]
    /\ paged_kv_cache' = IF gen.use_cache /\ gen.paged
                         THEN FreeSequences(paged_kv_cache, gen.sequence_ids)
                         ELSE paged_kv_cache
    /\ UNCHANGED << model_seed, cache_counts_pads, n_model_calls, specVars, scored >>

\* non-speculative greedy decoding of n tokens after a prompt
RECURSIVE GreedyDecode(_, _)
GreedyDecode(prompt, n) ==
    IF n = 0 THEN prompt
    ELSE LET r == GreedyDecode(prompt, n - 1) IN Append(r, GreedyNext(r))

Next ==
    \/ SpecPrime
    \/ SpecRound
    \/ SpecReturn
    \/ GenerateEnter
    \/ GenerateStep
    \/ GenerateReturn

Spec == Init /\ [][Next]_vars

\* ------------------------------------------- the scoring step on its own
\* Lines 283-344 without the cache: the scoring, selection and acceptance of
\* one candidate batch, for any last tokens, any speculator output and any
\* predictions of the base model.
ScoreInit ==
    /\ Init
    /\ model_seed = 0
    /\ ~cache_counts_pads

\* lines 280-292: the flattened candidate batch and the model's predictions
ScoreInputs ==
    /\ pc = "start"
    /\ \E k \in 1..MaxTopK, b \in 1..MaxBatch, np \in 0..MaxPredict :
        /\ b * k * np <= MaxCells
        /\ \E last \in [1..b -> Tokens],
              adds \in [1..k -> [1..b -> [1..np -> Tokens]]],
              next_vals \in [1..(k * b) -> [1..(np + 1) -> Tokens]] :
            scored' = [stage |-> "inputs", top_k |-> k, bsize |-> b,
                       n_adds |-> np + 1,
                       inputs |-> InputsFlat([bb \in 1..b |-> << last[bb] >>],
                                             adds, k, b),
                       next_vals |-> next_vals]
    /\ pc' = "score"
    /\ UNCHANGED << model_seed, cache_counts_pads, paged_kv_cache, n_model_calls,
                    specVars, gen >>

\* lines 295-308, 337-344: scoring, selection, trim count, accepted tokens
Score ==
    /\ pc = "score"
    /\ \E nc_all \in { NCorrectAll(scored.inputs, scored.next_vals, scored.top_k,
                                    scored.bsize, scored.n_adds) } :
       \E best \in { BestGuess(nc_all, scored.top_k, scored.bsize) } :
       \E nv_sel \in { GatherRows(scored.next_vals, best, scored.bsize) } :
       \E nc \in { GatherCounts(nc_all, best, scored.bsize) } :
           scored' = [stage |-> "scored", top_k |-> scored.top_k,
                      bsize |-> scored.bsize, n_adds |-> scored.n_adds,
                      inputs |-> scored.inputs, next_vals |-> scored.next_vals,
                      n_correct_all |-> nc_all,
                      best_guess |-> best,
                      n_correct |-> nc,
                      removed |-> [bb \in 1..scored.bsize |->
                                      TrimCount(scored.n_adds, nc[bb])],
                      next_vals_split |-> [bb \in 1..scored.bsize |->
                                              AcceptedTokens(nv_sel[bb], nc[bb])]]
    /\ pc' = "scored"
    /\ UNCHANGED << model_seed, cache_counts_pads, paged_kv_cache, n_model_calls,
                    specVars, gen >>

ScoreNext ==
    \/ ScoreInputs
    \/ Score

ScoreSpec == ScoreInit /\ [][ScoreNext]_vars

\* ------------------------------------------------------------------ claims
InSpec == pc \in {"round", "spec_done"}
BSize == Len(input_ids)
CeilDiv(a, b) == (a + b - 1) \div b

\* the context length allocate_initial_prompt commits for sequence i: the
\* prompt without its last token, with its left pads when the cache counts them
InitialContextLength(i) ==
    (IF cache_counts_pads THEN Len(input_ids[i]) + n_pads[i] ELSE Len(input_ids[i])) - 1

\* C1 (as stated): after every round the context length the cache holds for a
\* sequence's current parent id is prompt_length + n_gen.
C1_CacheLengthIsPromptPlusGenerated ==
    InSpec => \A i \in 1..BSize :
        ContextLength(paged_kv_cache, parent_sequence_ids[i])
            = Len(input_ids[i]) + n_gen[i]

\* C1 (amended): the context length is the length committed at priming for the
\* prompt without its last token, plus n_gen: one less than prompt_length + n_gen.
C1_CacheLengthIsPromptMinusOnePlusGenerated ==
    InSpec => \A i \in 1..BSize :
        ContextLength(paged_kv_cache, parent_sequence_ids[i])
            = InitialContextLength(i) + n_gen[i]

C1_Witness ==
    /\ pc = "round"
    /\ n_steps >= 2
    /\ BSize = 2
    /\ n_pads[1] > 0
    /\ n_correct[1] = 0
    /\ n_correct[2] = n_adds - 1
    /\ n_adds >= 2

\* C2: at the end of every round, sequence ids allocated minus ids freed is
\* exactly batch_size.
C2_AllocatedMinusFreedIsBatchSize ==
    (InSpec /\ n_steps >= 1) =>
        paged_kv_cache.next_id - Cardinality(Freed(paged_kv_cache)) = BSize

\* C3: in every round every sequence accepts n_correct + 1 tokens, at least 1
\* and at most n_adds.
C3_AcceptedCountInRange ==
    (InSpec /\ n_steps >= 1) => \A i \in 1..BSize :
        /\ accepted[i] = n_correct[i] + 1
        /\ 1 <= accepted[i]
        /\ accepted[i] <= n_adds

C3_Witness ==
    /\ pc = "round"
    /\ n_steps >= 1
    /\ BSize = 2
    /\ n_adds >= 2
    /\ accepted[1] = 1
    /\ accepted[2] = n_adds

C4_RoundsBounded ==
    (InSpec /\ new_tokens >= 1) =>
        /\ n_steps <= new_tokens
        /\ (pc = "spec_done" => n_steps * n_adds >= new_tokens)
        /\ (pc = "spec_done" => n_steps >= CeilDiv(new_tokens, n_adds))

\* C4: for new_tokens >= 1 the round loop terminates, after at most new_tokens
\* and at least ceil(new_tokens / n_adds) rounds: the loop is never stuck, every
\* round raises the minimum of n_gen, and the number of rounds stays in bounds.
C4_TerminatesWithinRoundBounds ==
    /\ [] C4_RoundsBounded
    /\ [] (pc = "round" => ENABLED (SpecRound \/ SpecReturn))
    /\ [][n_steps' # n_steps => /\ n_steps' = n_steps + 1
                                /\ SeqMin(n_gen') > SeqMin(n_gen)
                                /\ SeqMin(n_gen) < new_tokens]_vars

C4_Witness ==
    /\ pc = "spec_done"
    /\ new_tokens >= 3
    /\ n_adds >= 2
    /\ n_steps > CeilDiv(new_tokens, n_adds)
    /\ n_steps < new_tokens

\* C5: on return every result is the unpadded prompt followed by exactly n_gen
\* generated tokens, n_gen >= new_tokens, and n_steps is the number of rounds run.
C5_ReturnContract ==
    pc = "spec_done" =>
        /\ n_steps = rounds
        /\ \A i \in 1..BSize :
            /\ n_gen[i] >= new_tokens
            /\ Len(result[i]) = Len(input_ids[i]) + n_gen[i]
            /\ SubSeq(result[i], 1, Len(input_ids[i])) = input_ids[i]
            /\ \A j \in 1..Len(result[i]) : result[i][j] \in Tokens

C5_Witness ==
    /\ pc = "spec_done"
    /\ BSize = 2
    /\ Len(input_ids[1]) < Len(input_ids[2])
    /\ n_gen[1] > new_tokens
    /\ n_gen[2] = new_tokens
    /\ n_steps >= 2

\* C6: with a speculator that is wrong in every round, speculative_generate
\* returns token for token what greedy decoding of the same prompt returns.
C6_AlwaysWrongEqualsGreedy ==
    (pc = "spec_done" /\ all_zero) => \A i \in 1..BSize :
        result[i] = GreedyDecode(input_ids[i], n_gen[i])

\* C7: with full agreement in every round the number of rounds is
\* ceil(new_tokens / n_adds), for n_adds in {2, 4, 6}.
C7_FullAgreementRounds ==
    (pc = "spec_done" /\ all_full /\ n_adds \in {2, 4, 6}) =>
        n_steps = CeilDiv(new_tokens, n_adds)

C7_Witness ==
    /\ pc = "spec_done"
    /\ all_full
    /\ n_adds = 4
    /\ n_steps = 2

\* C8: when speculative_generate returns, every sequence id allocated during
\* the call has been freed.
C8_AllFreedAtReturn ==
    pc = "spec_done" => Live(paged_kv_cache) = {}

\* C9: a request with num_beams # 1 or with a prefix that is not a tensor of
\* token ids ends in an error with no model call and no cache operation.
C9_ErrorBeforeAnyComputation ==
    (\/ (gen.fn = "generate" /\ (gen.num_beams # 1 \/ ~gen.is_tensor))
     \/ (gen.fn = "speculative_generate" /\ ~gen.is_tensor)) =>
        /\ pc = "error"
        /\ n_model_calls = 0
        /\ paged_kv_cache = EmptyCache

C9_Witness ==
    /\ pc = "error"
    /\ gen.fn = "generate"
    /\ gen.num_beams = 2
    /\ gen.is_tensor
    /\ gen.use_cache
    /\ gen.paged

\* C10: in the priming mask a query position holding a real token attends
\* exactly the columns from the sequence's first real token up to itself; no
\* left-pad column is attendable.
C10_RealPositionsNeverAttendPads ==
    InSpec => \A b \in 1..BSize : \A i \in DOMAIN mask[b] :
        i >= n_pads[b] => \A j \in DOMAIN mask[b][i] :
            (mask[b][i][j] = 0) <=> (n_pads[b] <= j /\ j <= i)

C10_Witness ==
    /\ InSpec
    /\ BSize = 2
    /\ n_pads[1] = 1
    /\ n_pads[2] = 0
    /\ 1 \in DOMAIN mask[1]
    /\ mask[1][1][0] = NegInf
    /\ mask[1][1][1] = 0
    /\ mask[2][1][0] = 0

\* C12: verbose mode is purely observational: a run with verbose_dict set
\* makes the steps the run without it makes, so it never stops in an error
\* that the silent run does not meet.
C12_VerboseRunsLikeSilent ==
    (gen.fn = "speculative_generate" /\ gen.is_tensor /\ gen.verbose) =>
        pc # "error"

Scored == scored.stage = "scored"

\* C13: for every sequence the selected candidate has the maximum correctness
\* count among its top_k candidates, the first such candidate on a tie, and the
\* n_correct used afterwards is the selected candidate's count.
C13_BestGuessIsFirstMaximum ==
    Scored => \A bb \in 1..scored.bsize :
        LET sel == scored.best_guess[bb] + 1
        IN  /\ sel \in 1..scored.top_k
            /\ \A kk \in 1..scored.top_k :
                   scored.n_correct_all[kk][bb] <= scored.n_correct_all[sel][bb]
            /\ \A kk \in 1..(sel - 1) :
                   scored.n_correct_all[kk][bb] < scored.n_correct_all[sel][bb]
            /\ scored.n_correct[bb] = scored.n_correct_all[sel][bb]

C13_Witness ==
    /\ Scored
    /\ scored.bsize = 2
    /\ scored.top_k = 2
    /\ scored.n_correct_all[1][1] = 1
    /\ scored.n_correct_all[2][1] = 1
    /\ scored.best_guess[1] = 0
    /\ scored.n_correct_all[1][2] = 0
    /\ scored.n_correct_all[2][2] = 1
    /\ scored.best_guess[2] = 1

\* the candidate's proposed token at 0-based position i + 1 is what the model
\* predicted at position i, for every i below len
AgreesUpTo(row, nv, len) == \A i \in 1..len : nv[i] = row[i + 1]

\* C14: n_correct of a candidate is the length of the longest prefix of
\* positions on which the model's prediction equals the candidate's next
\* proposed token, capped at n_adds - 1; agreement at the wrapped-around last
\* position does not count.
C14_NCorrectIsLongestAgreeingPrefix ==
    Scored => \A kk \in 1..scored.top_k : \A bb \in 1..scored.bsize :
        LET r == (kk - 1) * scored.bsize + bb
            row == scored.inputs[r]
            nv == scored.next_vals[r]
            n == scored.n_correct_all[kk][bb]
        IN  /\ n \in 0..(scored.n_adds - 1)
            /\ AgreesUpTo(row, nv, n)
            /\ n < scored.n_adds - 1 => ~AgreesUpTo(row, nv, n + 1)

C14_Witness ==
    /\ Scored
    /\ scored.top_k = 1
    /\ scored.bsize = 2
    /\ scored.n_adds = 3
    /\ scored.n_correct_all[1][1] = 2
    /\ scored.next_vals[1][3] = scored.inputs[1][1]
    /\ scored.n_correct_all[1][2] = 1
    /\ scored.next_vals[2][2] # scored.inputs[2][3]
    /\ scored.next_vals[2][3] = scored.inputs[2][1]

\* C16: for every sequence n_correct is in [0, n_adds - 1], the count given to
\* remove_tokens, n_adds - 1 - n_correct, is in [0, n_adds - 1], and best_guess
\* is in [0, top_k - 1]; the number of accepted tokens is n_correct + 1.
C16_CountsAndIndexInRange ==
    Scored => \A bb \in 1..scored.bsize :
        /\ scored.n_correct[bb] \in 0..(scored.n_adds - 1)
        /\ scored.removed[bb] \in 0..(scored.n_adds - 1)
        /\ scored.removed[bb] = scored.n_adds - 1 - scored.n_correct[bb]
        /\ scored.best_guess[bb] \in 0..(scored.top_k - 1)
        /\ Len(scored.next_vals_split[bb]) = scored.n_correct[bb] + 1

C16_Witness ==
    /\ Scored
    /\ scored.bsize = 2
    /\ scored.top_k = 2
    /\ scored.n_adds = 2
    /\ scored.n_correct[1] = 0
    /\ scored.removed[1] = 1
    /\ scored.n_correct[2] = 1
    /\ scored.removed[2] = 0
    /\ scored.best_guess[2] = 1
    /\ scored.next_vals[4][2] = scored.inputs[4][1]

Range(q) == { q[j] : j \in 1..Len(q) }
Log == paged_kv_cache.log
AfterRound == pc \in {"round", "spec_done"} /\ n_steps >= 1

\* C15: in a round's reconciliation every parent has exactly its top_k - 1
\* non-winning children freed, the winning child is not freed and is the
\* sequence's parent id for the next round, in batch order, and remove_tokens is
\* called once per sequence, on the winning child.
C15_ReconciliationFreesLosersKeepsWinner ==
    AfterRound =>
        LET b == BSize
            base == Len(Log) - 2 * b
            alloc == Log[base]
        IN  /\ Len(parent_sequence_ids) = b
            /\ alloc.op = "allocate_generated_token"
            /\ Len(alloc.ids) = b * top_k
            /\ \A bb \in 1..b :
                LET kids == SubSeq(alloc.ids, (bb - 1) * top_k + 1, bb * top_k)
                    free == Log[base + 2 * bb - 1]
                    trim == Log[base + 2 * bb]
                    winner == parent_sequence_ids[bb]
                IN  /\ free.op = "free_sequences"
                    /\ Len(free.ids) = top_k - 1
                    /\ Range(free.ids) = Range(kids) \ {winner}
                    /\ winner = kids[best_guess[bb] + 1]
                    /\ winner \in Live(paged_kv_cache)
                    /\ Range(free.ids) \cap Live(paged_kv_cache) = {}
                    /\ trim.op = "remove_tokens"
                    /\ trim.ids = << winner >>
                    /\ trim.n = n_adds - 1 - n_correct[bb]

C15_Witness ==
    /\ AfterRound
    /\ n_steps >= 2
    /\ BSize = 2
    /\ top_k = 2
    /\ best_guess = << 0, 1 >>
    /\ n_correct = << 0, 1 >>

\* C17: for any speculator the first new_tokens generated tokens of every
\* returned sequence are the tokens greedy decoding of the same prompt emits.
C17_AnySpeculatorEqualsGreedy ==
    pc = "spec_done" => \A i \in 1..BSize :
        SubSeq(result[i], 1, Len(input_ids[i]) + new_tokens)
            = GreedyDecode(input_ids[i], new_tokens)

\* C19: every sequence id speculative_generate passes to add_child_sequences,
\* allocate_generated_token, remove_tokens or free_sequences is live when the
\* call is made, and no id is freed twice.
C19_OnlyLiveIdsReferenced ==
    gen.fn = "speculative_generate" =>
        /\ \A e \in 1..Len(Log) :
              Log[e].op \in {"add_child_sequences", "allocate_generated_token",
                             "remove_tokens", "free_sequences"} => Log[e].live
        /\ \A e, f \in 1..Len(Log) :
              (Log[e].op = "free_sequences" /\ Log[f].op = "free_sequences") =>
                  /\ Cardinality(Range(Log[e].ids)) = Len(Log[e].ids)
                  /\ e # f => Range(Log[e].ids) \cap Range(Log[f].ids) = {}

C19_Witness ==
    /\ AfterRound
    /\ n_steps = 2
    /\ BSize = 2
    /\ top_k = 2
    /\ Cardinality(Freed(paged_kv_cache)) = 4
    /\ Cardinality(Live(paged_kv_cache)) = 6

\* C20: on return with new_tokens >= 1 the slowest sequence overshoots by less
\* than one round, min(n_gen) in [new_tokens, new_tokens + n_adds - 1], and
\* every n_gen is at most n_steps * n_adds.
C20_OvershootWithinOneRound ==
    (pc = "spec_done" /\ new_tokens >= 1) =>
        /\ SeqMin(n_gen) >= new_tokens
        /\ SeqMin(n_gen) <= new_tokens + n_adds - 1
        /\ \A i \in 1..BSize : n_gen[i] <= n_steps * n_adds

C20_Witness ==
    /\ pc = "spec_done"
    /\ new_tokens >= 2
    /\ n_adds >= 3
    /\ BSize = 2
    /\ n_gen[1] = new_tokens + n_adds - 1
    /\ n_gen[2] > n_gen[1]

\* the operation, ids and count of each call, in order
Calls == [e \in 1..Len(Log) |-> << Log[e].op, Log[e].ids, Log[e].n >>]

PagedGenerate == gen.fn = "generate" /\ gen.use_cache /\ gen.paged

\* the calls of a paged generate() that has made i model calls: the ids
\* acquired, the prompt allocated, then one generated token per later call
CallsUpTo(i) ==
    << << "get_unassigned_sequence_ids", << >>, Len(gen.prompt) >> >>
    \o (IF i >= 1
        THEN << << "allocate_initial_prompt", gen.sequence_ids, Len(gen.prompt) >> >>
        ELSE << >>)
    \o [j \in 1..(i - 1) |-> << "allocate_generated_token", gen.sequence_ids, 1 >>]

FreeCall == << "free_sequences", gen.sequence_ids, Len(gen.sequence_ids) >>

ResultIsPromptPlus(n) ==
    \A r \in 1..Len(gen.prompt) :
        /\ Len(gen.result[r]) = Len(gen.prompt[r]) + n
        /\ SubSeq(gen.result[r], 1, Len(gen.prompt[r])) = gen.prompt[r]

\* C18 (as stated): for any max_new_tokens >= 0 a paged generate() acquires its
\* ids once, allocates the prompt exactly once, allocates one generated token
\* before each later model call, frees the acquired ids once at the end, calls
\* the model max_new_tokens times and returns the prompt plus max_new_tokens
\* tokens.
C18_CacheCallsInOrderForAnyCount ==
    (PagedGenerate /\ pc = "gen_done") =>
        /\ Calls = << << "get_unassigned_sequence_ids", << >>, Len(gen.prompt) >>,
                      << "allocate_initial_prompt", gen.sequence_ids, Len(gen.prompt) >> >>
                   \o [j \in 1..(gen.max_new_tokens - 1) |->
                          << "allocate_generated_token", gen.sequence_ids, 1 >>]
                   \o << FreeCall >>
        /\ n_model_calls = gen.max_new_tokens
        /\ ResultIsPromptPlus(gen.max_new_tokens)

\* C18 (amended): the stated order holds for max_new_tokens >= 1, each
\* allocation preceding its model call; for max_new_tokens = 0 the prompt is
\* never allocated and the only calls are the acquisition of the ids and
\* free_sequences on them.
C18_CacheCallsInOrder ==
    (PagedGenerate /\ pc \in {"gen_loop", "gen_done"}) =>
        /\ n_model_calls = gen.i
        /\ gen.i <= gen.max_new_tokens
        /\ ResultIsPromptPlus(gen.i)
        /\ pc = "gen_loop" => Calls = CallsUpTo(gen.i)
        /\ pc = "gen_done" => /\ gen.i = gen.max_new_tokens
                              /\ Calls = CallsUpTo(gen.i) \o << FreeCall >>
                              /\ Live(paged_kv_cache) = {}

C18_Witness ==
    /\ PagedGenerate
    /\ pc = "gen_done"
    /\ gen.max_new_tokens = 2
    /\ Len(gen.prompt) = 2
    /\ Len(Log) = 4

====
